---------------------------- MODULE Spec2Model ----------------------------
(***************************************************************************)
(* A model of src/source.ts: the currency value type (constructor, parse,  *)
(* add, subtract, multiply, divide, distribute, toString) and the event    *)
(* emitter (on, off, trigger, _dispatch).                                  *)
(*                                                                         *)
(* JavaScript numbers are modelled as exact rationals plus NaN and the two *)
(* infinities.  Binary rounding error of IEEE doubles (of the order of     *)
(* 1e-16 relative) and the sign of zero are not modelled; the code's own   *)
(* toFixed(4) step absorbs the former for the magnitudes used here.        *)
(* JavaScript strings are sequences of one-character strings.              *)
(***************************************************************************)
EXTENDS Integers, Sequences, FiniteSets

(***************************************************************************)
(* Bounds of the model.                                                    *)
(***************************************************************************)
\* largest |intValue| of an instance a call is made on or with
MaxAbs == 500
\* largest count passed to distribute
MaxCount == 3
\* largest number of registrations held for one event type
MaxHandlers == 3

(***************************************************************************)
(* Numbers.                                                                *)
(***************************************************************************)
RECURSIVE GCD(_, _)
GCD(a, b) == IF b = 0 THEN a ELSE GCD(b, a % b)

Abs(i) == IF i < 0 THEN -i ELSE i

Reduced(n, d, g) ==
  [k |-> "fin", n |-> (IF d < 0 THEN -n ELSE n) \div g, d |-> Abs(d) \div g]

\* a finite number n/d in lowest terms, d > 0
Fin(n, d) == Reduced(n, d, GCD(Abs(n), Abs(d)))

Int2Num(i) == [k |-> "fin", n |-> i, d |-> 1]
NaN == [k |-> "nan", n |-> 0, d |-> 1]
PosInf == [k |-> "inf", n |-> 1, d |-> 1]
NegInf == [k |-> "inf", n |-> -1, d |-> 1]
Zero == Int2Num(0)

IsFin(x) == x.k = "fin"
IsInteger(x) == x.k = "fin" /\ x.d = 1
Sign(x) == IF x.n > 0 THEN 1 ELSE IF x.n < 0 THEN -1 ELSE 0
InfOf(s) == IF s < 0 THEN NegInf ELSE PosInf

\* JavaScript  a + b
NumAdd(a, b) ==
  IF a.k = "nan" \/ b.k = "nan" THEN NaN
  ELSE IF a.k = "inf" /\ b.k = "inf" THEN (IF a.n = b.n THEN a ELSE NaN)
  ELSE IF a.k = "inf" THEN a
  ELSE IF b.k = "inf" THEN b
  ELSE Fin(a.n * b.d + b.n * a.d, a.d * b.d)

\* JavaScript  -a
NumNeg(a) == IF a.k = "nan" THEN NaN ELSE [a EXCEPT !.n = -a.n]

\* JavaScript  a - b
NumSub(a, b) == NumAdd(a, NumNeg(b))

\* JavaScript  a * b
NumMul(a, b) ==
  IF a.k = "nan" \/ b.k = "nan" THEN NaN
  ELSE IF a.k = "inf" \/ b.k = "inf"
       THEN (IF Sign(a) * Sign(b) = 0 THEN NaN ELSE InfOf(Sign(a) * Sign(b)))
  ELSE Fin(a.n * b.n, a.d * b.d)

\* JavaScript  a / b  (a zero divisor is +0)
NumDiv(a, b) ==
  IF a.k = "nan" \/ b.k = "nan" THEN NaN
  ELSE IF a.k = "inf" /\ b.k = "inf" THEN NaN
  ELSE IF a.k = "inf" THEN InfOf(IF Sign(b) < 0 THEN -a.n ELSE a.n)
  ELSE IF b.k = "inf" THEN Zero
  ELSE IF b.n = 0 THEN (IF a.n = 0 THEN NaN ELSE InfOf(Sign(a)))
  ELSE Fin(a.n * b.d, a.d * b.n)

\* JavaScript  a < b  (false when either is NaN)
NumLt(a, b) ==
  /\ a.k # "nan"
  /\ b.k # "nan"
  /\ IF a.k = "inf" THEN a.n < 0 /\ b # a
     ELSE IF b.k = "inf" THEN b.n > 0
     ELSE a.n * b.d < b.n * a.d

\* JavaScript  a >= b
NumGe(a, b) == a.k # "nan" /\ b.k # "nan" /\ ~NumLt(a, b)

\* JavaScript  a === b  on numbers (NaN equals nothing)
NumEq(a, b) == a.k # "nan" /\ b.k # "nan" /\ a = b

\* floor of the rational n/d, d > 0
FloorDiv(n, d) == IF n >= 0 THEN n \div d ELSE -((-n + d - 1) \div d)

MathFloor(x) == IF IsFin(x) THEN Int2Num(FloorDiv(x.n, x.d)) ELSE x
MathCeil(x) == IF IsFin(x) THEN Int2Num(-FloorDiv(-x.n, x.d)) ELSE x
MathAbs(x) == IF x.k = "nan" THEN NaN ELSE [x EXCEPT !.n = Abs(x.n)]

\* Math.round: floor(x + 0.5)
round(v) == IF IsFin(v) THEN Int2Num(FloorDiv(2 * v.n + v.d, 2 * v.d)) ELSE v

RECURSIVE Pow10(_)
Pow10(p) == IF p = 0 THEN 1 ELSE 10 * Pow10(p - 1)

\* Math.pow(10, p) for a small non-negative integer p
pow(p) == Int2Num(Pow10(p))

rounding(value, increment) == NumMul(round(NumDiv(value, increment)), increment)

\* JavaScript truthiness of a number
Truthy(x) == x.k = "inf" \/ (x.k = "fin" /\ x.n # 0)

(***************************************************************************)
(* Strings and the conversions between strings and numbers.                *)
(***************************************************************************)
DigitChars == <<"0", "1", "2", "3", "4", "5", "6", "7", "8", "9">>
Digits == {"0", "1", "2", "3", "4", "5", "6", "7", "8", "9"}
IsDigit(c) == c \in Digits
DigitVals == [c \in Digits |-> (CHOOSE i \in 1..10 : DigitChars[i] = c) - 1]
DigitVal(c) == DigitVals[c]

RECURSIVE NatToStr(_)
NatToStr(m) ==
  IF m < 10 THEN <<DigitChars[m + 1]>>
  ELSE NatToStr(m \div 10) \o <<DigitChars[(m % 10) + 1]>>

RECURSIVE PadLeft(_, _)
PadLeft(s, len) == IF Len(s) >= len THEN s ELSE PadLeft(<<"0">> \o s, len)

\* the number the first i digits of s spell
RECURSIVE PrefixToNat(_, _)
PrefixToNat(s, i) ==
  IF i = 0 THEN 0 ELSE 10 * PrefixToNat(s, i - 1) + DigitVal(s[i])

StrToNat(s) == PrefixToNat(s, Len(s))

InfinityStr == <<"I", "n", "f", "i", "n", "i", "t", "y">>
NaNStr == <<"N", "a", "N">>

\* Number.prototype.toFixed(digits): the nearest decimal with that many
\* fractional digits, a tie taking the larger magnitude
\* the digit string ds with a point before its last digits digits
WithPoint(ds, digits) ==
  SubSeq(ds, 1, Len(ds) - digits)
    \o (IF digits = 0 THEN <<>>
        ELSE <<".">> \o SubSeq(ds, Len(ds) - digits + 1, Len(ds)))

ToFixed(x, digits) ==
  IF x.k = "nan" THEN NaNStr
  ELSE IF x.k = "inf" THEN (IF x.n < 0 THEN <<"-">> ELSE <<>>) \o InfinityStr
  ELSE (IF x.n < 0 THEN <<"-">> ELSE <<>>)
         \o WithPoint(PadLeft(NatToStr((2 * Abs(x.n) * Pow10(digits) + x.d)
                                         \div (2 * x.d)),
                              digits + 1),
                      digits)

AllDigits(s) == \A i \in 1..Len(s) : IsDigit(s[i])

\* index of the first c of s at or after i, or 0
RECURSIVE IndexFrom(_, _, _)
IndexFrom(s, c, i) ==
  IF i > Len(s) THEN 0 ELSE IF s[i] = c THEN i ELSE IndexFrom(s, c, i + 1)

\* index of the first "." of s, or 0
FirstDot(s) == IndexFrom(s, ".", 1)

\* an unsigned decimal literal: digits, optionally a "." and digits, at
\* least one digit in all
DecimalToNum(whole, frac) ==
  IF AllDigits(whole) /\ AllDigits(frac) /\ Len(whole) + Len(frac) > 0
  THEN Fin(StrToNat(whole) * Pow10(Len(frac)) + StrToNat(frac), Pow10(Len(frac)))
  ELSE NaN

SplitAtDot(s, dot) ==
  DecimalToNum(IF dot = 0 THEN s ELSE SubSeq(s, 1, dot - 1),
               IF dot = 0 THEN <<>> ELSE SubSeq(s, dot + 1, Len(s)))

UnsignedToNum(s) == SplitAtDot(s, FirstDot(s))

Signed(negative, x) == IF negative THEN NumNeg(x) ELSE x

\* Number(string) for strings without white space, exponents or radix
\* prefixes
NumberOf(s) ==
  IF s = <<>> THEN Zero
  ELSE IF s = InfinityStr \/ s = <<"+">> \o InfinityStr THEN PosInf
  ELSE IF s = <<"-">> \o InfinityStr THEN NegInf
  ELSE Signed(s[1] = "-",
              UnsignedToNum(IF s[1] \in {"-", "+"} THEN Tail(s) ELSE s))

(***************************************************************************)
(* JavaScript values passed to the currency API.                           *)
(***************************************************************************)
NumV(x) == [t |-> "number", num |-> x]
StrV(s) == [t |-> "string", str |-> s]
CurV(o) == [t |-> "currency", obj |-> o]
Undefined == [t |-> "undefined"]
Null == [t |-> "null"]

\* Object.assign({}, target, source)
Assign(target, source) ==
  [f \in (DOMAIN target) \union (DOMAIN source) |->
     IF f \in DOMAIN source THEN source[f] ELSE target[f]]

defaults ==
  [symbol |-> "$", separator |-> ",", decimal |-> ".",
   formatWithSymbol |-> FALSE, errorOnInvalid |-> FALSE, precision |-> 2,
   pattern |-> "!#", negativePattern |-> "-!#"]

(***************************************************************************)
(* parse                                                                   *)
(***************************************************************************)
LastIndexOf(s, c) ==
  IF \E i \in 1..Len(s) : s[i] = c
  THEN CHOOSE i \in 1..Len(s) : s[i] = c /\ \A j \in (i + 1)..Len(s) : s[j] # c
  ELSE 0

FirstIndexOf(s, c) == IndexFrom(s, c, 1)

\* value.replace(/\((.*)\)/, '-$1')
ReplaceParens(s) ==
  LET open == FirstIndexOf(s, "(")
      close == LastIndexOf(s, ")")
  IN  IF open > 0 /\ close > open
      THEN SubSeq(s, 1, open - 1) \o <<"-">> \o SubSeq(s, open + 1, close - 1)
             \o SubSeq(s, close + 1, Len(s))
      ELSE s

\* .replace(new RegExp('[^-\\d' + decimal + ']', 'g'), ''), from index i on
RECURSIVE StripFrom(_, _, _)
StripFrom(s, decimal, i) ==
  IF i > Len(s) THEN <<>>
  ELSE IF s[i] = "-" \/ IsDigit(s[i]) \/ s[i] = decimal
       THEN <<s[i]>> \o StripFrom(s, decimal, i + 1)
  ELSE StripFrom(s, decimal, i + 1)

StripNonNumeric(s, decimal) == StripFrom(s, decimal, 1)

\* .replace(new RegExp('\\' + decimal, 'g'), '.'), from index i on
RECURSIVE ConvertFrom(_, _, _)
ConvertFrom(s, decimal, i) ==
  IF i > Len(s) THEN <<>>
  ELSE <<IF s[i] = decimal THEN "." ELSE s[i]>> \o ConvertFrom(s, decimal, i + 1)

ConvertDecimal(s, decimal) == ConvertFrom(s, decimal, 1)

\* line 241: v || 0
OrZero(v) == IF Truthy(v) THEN v ELSE Zero

\* lines 229-247: v before the toFixed step
parseValue(value, decimal, precision) ==
  IF value.t = "currency" THEN NumMul(value.obj.value, precision)
  ELSE IF value.t = "number" THEN value.num
  ELSE IF value.t = "string"
       THEN OrZero(NumMul(NumberOf(ConvertDecimal(
                            StripNonNumeric(ReplaceParens(value.str), decimal),
                            decimal)),
                          precision))
  ELSE Zero

\* line 252
parseReturn(v, useRounding) == IF useRounding THEN round(v) ELSE v

\* a variant that raises the error whatever errorOnInvalid says
parseStrict(value, opts, useRounding) ==
  [threw |-> value.t \notin {"currency", "number", "string"},
   v |-> parseReturn(NumberOf(ToFixed(parseValue(value, opts.decimal,
                                                 pow(opts.precision)), 4)),
                     useRounding)]

\* parse(value, opts, useRounding): threw is TRUE when Error('Invalid Input')
\* is raised, v is the returned number otherwise
parse(value, opts, useRounding) ==
  [threw |-> value.t \notin {"currency", "number", "string"} /\ opts.errorOnInvalid,
   v |-> parseReturn(NumberOf(ToFixed(parseValue(value, opts.decimal,
                                                 pow(opts.precision)), 4)),
                     useRounding)]

(***************************************************************************)
(* The constructor.                                                        *)
(***************************************************************************)
\* lines 209-217: the settings with increment and groups set
MakeSettings(settings) ==
  Assign(settings,
         [increment |-> IF "increment" \in DOMAIN settings
                           /\ Truthy(settings.increment)
                        THEN settings.increment
                        ELSE NumDiv(Int2Num(1), pow(settings.precision)),
          groups |-> IF "useVedic" \in DOMAIN settings /\ settings.useVedic
                     THEN "vedicRegex" ELSE "groupRegex"])

\* lines 205-221, v being what parse returned (p.v) or that it threw
Instance(p, settings) ==
  [threw |-> p.threw,
   parse |-> p,
   obj |-> [intValue |-> p.v,
            value |-> NumDiv(p.v, pow(settings.precision)),
            _settings |-> MakeSettings(settings),
            _precision |-> pow(settings.precision)]]

\* lines 201-203
Configured(value, settings) == Instance(parse(value, settings, TRUE), settings)

\* new currency(value, opts): whether it threw, and the new instance
currency(value, opts) == Configured(value, Assign(defaults, opts))

(***************************************************************************)
(* Arithmetic.  Each operator returns the receiver and the argument as the *)
(* call leaves them, whether it threw, and the instance it returns.        *)
(***************************************************************************)
\* a variant that prints intValue without dividing by the precision
toStringUnscaled(self) ==
  ToFixed(rounding(self.intValue, self._settings.increment),
          self._settings.precision)

\* toString(): the value rounded to the increment, in fixed notation
toString(self) ==
  ToFixed(rounding(NumDiv(self.intValue, self._precision), self._settings.increment),
          self._settings.precision)

\* a call's outcome: p is what the parse of the argument returned (NoParse
\* when the method does not parse it), c the construction of the result
NoParse == [threw |-> FALSE]

Outcome(self, number, p, c) ==
  [self |-> self, number |-> number, threw |-> p.threw \/ c.threw,
   result |-> c.obj, returned |-> "new", parse |-> p]

\* a variant that adds to the receiver's own intValue
addInPlace(self, number, p) ==
  Outcome([self EXCEPT !.intValue = NumAdd(self.intValue, p.v)], number, p,
          currency(NumV(NumDiv(NumAdd(self.intValue, p.v), self._precision)),
                   self._settings))

\* line 263, p being parse(number, _settings)
addParsed(self, number, p) ==
  Outcome(self, number, p,
          currency(NumV(NumDiv(NumAdd(self.intValue, p.v), self._precision)),
                   self._settings))

add(self, number) ==
  addParsed(self, number, parse(number, self._settings, TRUE))

\* line 273, p being parse(number, _settings)
subtractParsed(self, number, p) ==
  Outcome(self, number, p,
          currency(NumV(NumDiv(NumSub(self.intValue, p.v), self._precision)),
                   self._settings))

subtract(self, number) ==
  subtractParsed(self, number, parse(number, self._settings, TRUE))

multiply(self, number) ==
  Outcome(self, number, NoParse,
          currency(NumV(NumDiv(NumMul(self.intValue, number.num),
                               pow(self._settings.precision))),
                   self._settings))

\* line 293, p being parse(number, _settings, false)
divideParsed(self, number, p) ==
  Outcome(self, number, p,
          currency(NumV(NumDiv(self.intValue, p.v)), self._settings))

divide(self, number) ==
  divideParsed(self, number, parse(number, self._settings, FALSE))

(***************************************************************************)
(* distribute, one loop iteration at a time.                               *)
(***************************************************************************)
\* lines 305-306: split and pennies
\* line 306
distributePennies(self, cnt, splitV) ==
  [split |-> splitV,
   pennies |-> MathAbs(NumSub(self.intValue, NumMul(splitV, Int2Num(cnt))))]

\* line 305: Math[intValue >= 0 ? 'floor' : 'ceil'](q)
distributeSplit(self, q) ==
  IF NumGe(self.intValue, Zero) THEN MathFloor(q) ELSE MathCeil(q)

distributeInit(self, cnt) ==
  distributePennies(self, cnt,
                    distributeSplit(self, NumDiv(self.intValue, Int2Num(cnt))))

\* a variant that leaves the loop one iteration early
LoopDoneEarly(cnt) == cnt <= 1

\* line 308: the loop ends when count reaches 0
LoopDone(cnt) == cnt = 0

\* the item one iteration pushes
\* line 312: pennies-- > 0 && (item = intValue >= 0 ? item.add(1 / _precision)
\*                                                  : item.subtract(1 / _precision))
withPenny(self, item, penniesV) ==
  IF NumLt(Zero, penniesV)
  THEN (IF NumGe(self.intValue, Zero)
        THEN add(item, NumV(NumDiv(Int2Num(1), self._precision))).result
        ELSE subtract(item, NumV(NumDiv(Int2Num(1), self._precision))).result)
  ELSE item

\* lines 309-312
distributeItem(self, splitV, penniesV) ==
  withPenny(self,
            currency(NumV(NumDiv(splitV, self._precision)), self._settings).obj,
            penniesV)

(***************************************************************************)
(* Event emitter: pure parts.  events maps a type to its handler array;    *)
(* a type without an own property is outside the domain.                   *)
(***************************************************************************)
\* Array.prototype.indexOf, 0 when absent (indices are 1-based here)
IndexOf(arr, h) ==
  IF \E i \in 1..Len(arr) : arr[i] = h
  THEN CHOOSE i \in 1..Len(arr) : arr[i] = h /\ \A j \in 1..(i - 1) : arr[j] # h
  ELSE 0

\* arr.splice(i, 1)
Splice(arr, i) == SubSeq(arr, 1, i - 1) \o SubSeq(arr, i + 1, Len(arr))

\* emitter.on on an emitter whose events object exists
on(ev, type, handler) ==
  IF type \in DOMAIN ev
  THEN [ev EXCEPT ![type] = Append(ev[type], handler)]
  ELSE Assign(ev, [x \in {type} |-> <<handler>>])

\* lines 101-103
SpliceAt(ev, type, i) ==
  IF i > 0 THEN [ev EXCEPT ![type] = Splice(ev[type], i)] ELSE ev

\* a variant that drops every registration of the handler
RECURSIVE Without(_, _)
Without(arr, handler) ==
  IF arr = <<>> THEN <<>>
  ELSE (IF arr[1] = handler THEN <<>> ELSE <<arr[1]>>) \o Without(Tail(arr), handler)

_offByHandlerEvery(ev, type, handler) ==
  IF type \notin DOMAIN ev THEN ev
  ELSE [ev EXCEPT ![type] = Without(ev[type], handler)]

_offByHandler(ev, type, handler) ==
  IF type \notin DOMAIN ev THEN ev
  ELSE SpliceAt(ev, type, IndexOf(ev[type], handler))

_offByType(ev, type) ==
  IF type \in DOMAIN ev THEN [x \in (DOMAIN ev) \ {type} |-> ev[x]] ELSE ev

_offAll(ev) == <<>>

\* emitter.off called with the arguments args: none, <<type>> or
\* <<type, handler>>
off(ev, args) ==
  IF Len(args) = 0 THEN _offAll(ev)
  ELSE IF Len(args) = 1 THEN _offByType(ev, args[1])
  ELSE _offByHandler(ev, args[1], args[2])

(***************************************************************************)
(* State.                                                                  *)
(***************************************************************************)
VARIABLES
  this,     \* the instance the caller constructed first, then the receiver
            \* of the last method call
  arg,      \* the argument of the last call, as the call left it
  passed,   \* the argument of the last call, as the caller passed it
  ret,      \* what the last call returned: "new" instances, "self" or "none"
  out,      \* the instances the last call returned
  err,      \* the last call raised Error('Invalid Input')
  lastOp,   \* the name of the last call
  parsed,   \* the last call's parse of its caller-supplied value, or NoCall
  text,     \* the string this.toString() returned, or NoText
  dpc,      \* "idle", or "loop" inside distribute's for loop
  count,    \* distribute's count
  split,    \* distribute's split
  pennies,  \* distribute's pennies
  events,   \* the emitter's events object
  epc,      \* "idle", or "dispatch" inside _dispatch's forEach
  etype,    \* the type of the event being dispatched
  k,        \* forEach's index (1-based) of the next element to visit
  len,      \* the array length forEach read when it started
  snapshot, \* the handlers registered for etype when trigger was called
  eop,      \* the last call made on the emitter from outside a handler
  calls     \* the handlers invoked by the dispatch, in order, with the event
            \* type each received

moneyVars ==
  <<this, arg, passed, ret, out, err, lastOp, parsed, text, dpc, count, split, pennies>>
emitterVars == <<events, epc, etype, k, len, snapshot, eop, calls>>
vars == <<moneyVars, emitterVars>>

NoText == <<"?">>
NoCall == [threw |-> FALSE]

(***************************************************************************)
(* Inputs.                                                                 *)
(***************************************************************************)
Numbers == {Int2Num(0), Int2Num(1), Int2Num(2), Fin(-5, 2), PosInf}

Strings ==
  { <<"(", "1", ".", "9", "9", ")">>, <<"a", "-">>, <<"0", ",", "5">> }

OptsSet ==
  { <<>>, [errorOnInvalid |-> TRUE], [increment |-> Fin(1, 20)],
    [decimal |-> ","], [precision |-> 1] }

RawInputs ==
  {NumV(x) : x \in Numbers} \union {StrV(x) : x \in Strings}
    \union {Undefined, Null}

Range(f) == {f[i] : i \in DOMAIN f}

\* the instances the caller holds
Objs == {this} \union Range(out)

\* the arguments the caller passes: a raw value or an instance it holds
Args == RawInputs \union {CurV(o) : o \in Objs}

InRange(o) == IsFin(o.intValue) => Abs(o.intValue.n) <= MaxAbs

\* the record of a parse call on a caller-supplied value
CallRecord(value, opts, p) ==
  [value |-> value, opts |-> opts, threw |-> p.threw, v |-> p.v]

ParseCall(value, opts, useRounding) ==
  CallRecord(value, opts, parse(value, opts, useRounding))

\* the record of the parse a method call made of its argument
ParseOf(r) ==
  IF r.parse = NoParse THEN NoCall
  ELSE CallRecord(r.number, r.self._settings, r.parse)

(***************************************************************************)
(* The currency machine: a caller constructs instances and calls their     *)
(* methods.  this, arg and out are the references the caller holds.        *)
(***************************************************************************)
\* the caller has constructed currency(value, opts)
MoneyStart(value, opts) ==
  /\ ~currency(value, opts).threw
  /\ InRange(currency(value, opts).obj)
  /\ this = currency(value, opts).obj
  /\ arg = value
  /\ passed = value
  /\ ret = "new"
  /\ parsed = ParseCall(value, Assign(defaults, opts), TRUE)
  /\ out = <<>>
  /\ err = FALSE
  /\ lastOp = "construct"
  /\ text = NoText
  /\ dpc = "idle"
  /\ count = 0
  /\ split = Zero
  /\ pennies = Zero

MoneyInit == \E value \in RawInputs, opts \in OptsSet : MoneyStart(value, opts)

Constructed(value, opts, c) ==
  /\ dpc = "idle"
  /\ c.threw \/ InRange(c.obj)
  /\ arg' = value
  /\ passed' = value
  /\ ret' = IF c.threw THEN "none" ELSE "new"
  /\ out' = IF c.threw THEN <<>> ELSE <<c.obj>>
  /\ err' = c.threw
  /\ lastOp' = "construct"
  /\ parsed' = CallRecord(value, Assign(defaults, opts), c.parse)
  /\ UNCHANGED <<this, text, count, split, pennies, dpc, emitterVars>>

\* currency(value, opts) with the settings of an instance the caller holds
Construct(value, opts) == Constructed(value, opts, currency(value, opts))

\* what a call of add, subtract, multiply or divide leaves behind
Call(name, number, r) ==
  /\ dpc = "idle"
  /\ r.threw \/ InRange(r.result)
  /\ this' = r.self
  /\ arg' = r.number
  /\ passed' = number
  /\ ret' = IF r.threw THEN "none" ELSE r.returned
  /\ out' = IF r.threw THEN <<>> ELSE <<r.result>>
  /\ err' = r.threw
  /\ lastOp' = name
  /\ parsed' = ParseOf(r)
  /\ text' = NoText
  /\ UNCHANGED <<count, split, pennies, dpc, emitterVars>>

Add(self, number) == Call("add", number, add(self, number))

Subtract(self, number) == Call("subtract", number, subtract(self, number))

Multiply(self, number) == Call("multiply", number, multiply(self, number))

Divide(self, number) == Call("divide", number, divide(self, number))

ToStringCall(self) ==
  /\ dpc = "idle"
  /\ this' = self
  /\ text' = toString(self)
  /\ arg' = Undefined
  /\ passed' = Undefined
  /\ ret' = "none"
  /\ out' = <<>>
  /\ err' = FALSE
  /\ lastOp' = "toString"
  /\ parsed' = NoCall
  /\ UNCHANGED <<count, split, pennies, dpc, emitterVars>>

\* distribute(cnt) up to the loop: lines 303-306
DistributeEnter(self, cnt, d) ==
  /\ dpc = "idle"
  /\ dpc' = "loop"
  /\ this' = self
  /\ arg' = NumV(Int2Num(cnt))
  /\ passed' = NumV(Int2Num(cnt))
  /\ ret' = "new"
  /\ count' = cnt
  /\ split' = d.split
  /\ pennies' = d.pennies
  /\ out' = <<>>
  /\ err' = FALSE
  /\ lastOp' = "distribute"
  /\ parsed' = NoCall
  /\ text' = NoText
  /\ UNCHANGED emitterVars

DistributeStart(self, cnt) == DistributeEnter(self, cnt, distributeInit(self, cnt))

\* line 308: for (; count !== 0; count--)
LoopIteration ==
  /\ dpc = "loop"
  /\ ~LoopDone(count)
  /\ count' = count - 1

\* line 308 with the loop ended
LoopExit ==
  /\ dpc = "loop"
  /\ LoopDone(count)
  /\ dpc' = "idle"

\* one iteration of the loop: lines 308-315
DistributeStep ==
  /\ LoopIteration
  /\ out' = Append(out, distributeItem(this, split, pennies))
  /\ pennies' = NumSub(pennies, Int2Num(1))
  /\ UNCHANGED <<this, arg, passed, ret, err, lastOp, parsed, text, split, dpc,
                 emitterVars>>

\* line 317: the call returns and its locals are gone
DistributeReturn ==
  /\ LoopExit
  /\ count' = 0
  /\ split' = Zero
  /\ pennies' = Zero
  /\ UNCHANGED <<this, arg, passed, ret, out, err, lastOp, parsed, text, emitterVars>>

MoneyNext ==
  \/ \E value \in Args \union (IF text = NoText THEN {} ELSE {StrV(text)}) :
        Construct(value, this._settings)
  \/ \E number \in Args : Add(this, number)
  \/ \E number \in Args : Subtract(this, number)
  \/ \E number \in {NumV(x) : x \in Numbers} : Multiply(this, number)
  \/ \E number \in Args : Divide(this, number)
  \/ ToStringCall(this)
  \/ \E cnt \in 0..MaxCount : DistributeStart(this, cnt)
  \/ DistributeStep
  \/ DistributeReturn

(***************************************************************************)
(* The emitter machine.  A handler of OnceHandlers removes itself with     *)
(* off(type, handler) when it is invoked; the others change nothing.       *)
(***************************************************************************)
Types == {"x", "y"}
Handlers == {"h1", "h2", "once"}
OnceHandlers == {"once"}

EmitterInit ==
  /\ events = <<>>
  /\ epc = "idle"
  /\ etype = "x"
  /\ k = 1
  /\ len = 0
  /\ snapshot = <<>>
  /\ eop = [name |-> "none", type |-> "x", handler |-> "h1"]
  /\ calls = <<>>

On(type, handler) ==
  /\ epc = "idle"
  /\ type \in DOMAIN events => Len(events[type]) < MaxHandlers
  /\ events' = on(events, type, handler)
  /\ eop' = [name |-> "on", type |-> type, handler |-> handler]
  /\ snapshot' = <<>>
  /\ calls' = <<>>
  /\ UNCHANGED <<epc, etype, k, len, moneyVars>>

\* off()
OffAll ==
  /\ epc = "idle"
  /\ events' = off(events, <<>>)
  /\ eop' = [name |-> "off0", type |-> "x", handler |-> "h1"]
  /\ snapshot' = <<>>
  /\ calls' = <<>>
  /\ UNCHANGED <<epc, etype, k, len, moneyVars>>

\* off(type)
OffType(type) ==
  /\ epc = "idle"
  /\ events' = off(events, <<type>>)
  /\ eop' = [name |-> "off1", type |-> type, handler |-> "h1"]
  /\ snapshot' = <<>>
  /\ calls' = <<>>
  /\ UNCHANGED <<epc, etype, k, len, moneyVars>>

\* off(type, handler)
OffHandler(type, handler) ==
  /\ epc = "idle"
  /\ events' = off(events, <<type, handler>>)
  /\ eop' = [name |-> "off2", type |-> type, handler |-> handler]
  /\ snapshot' = <<>>
  /\ calls' = <<>>
  /\ UNCHANGED <<epc, etype, k, len, moneyVars>>

\* trigger(type) up to forEach: lines 78-93
Trigger(type) ==
  /\ epc = "idle"
  /\ etype' = type
  /\ calls' = <<>>
  /\ k' = 1
  /\ eop' = [name |-> "trigger", type |-> type, handler |-> "h1"]
  /\ IF type \in DOMAIN events
     THEN /\ epc' = "dispatch"
          /\ len' = Len(events[type])
          /\ snapshot' = events[type]
     ELSE /\ epc' = "idle"
          /\ len' = 0
          /\ snapshot' = <<>>
  /\ UNCHANGED <<events, moneyVars>>

\* what forEach does at index k: it calls the element, if the array still
\* has one there, with the event as first argument
Visit(arr, i, type) ==
  IF i <= Len(arr) THEN <<[handler |-> arr[i], event |-> [type |-> type]]>> ELSE <<>>

\* what the handlers called (v, at most one) do to the emitter
Invoked(ev, type, v) ==
  IF v # <<>> /\ v[1].handler \in OnceHandlers
  THEN off(ev, <<type, v[1].handler>>)
  ELSE ev

\* one step of handlers.forEach(...): line 94
DispatchStep ==
  /\ epc = "dispatch"
  /\ k <= len
  /\ calls' = calls \o Visit(events[etype], k, etype)
  /\ events' = Invoked(events, etype, Visit(events[etype], k, etype))
  /\ k' = k + 1
  /\ UNCHANGED <<epc, etype, len, snapshot, eop, moneyVars>>

\* line 95
DispatchReturn ==
  /\ epc = "dispatch"
  /\ k > len
  /\ epc' = "idle"
  /\ k' = 1
  /\ len' = 0
  /\ UNCHANGED <<events, etype, snapshot, eop, calls, moneyVars>>

EmitterNext ==
  \/ \E type \in Types, handler \in Handlers : On(type, handler)
  \/ OffAll
  \/ \E type \in Types : OffType(type)
  \/ \E type \in Types, handler \in Handlers : OffHandler(type, handler)
  \/ \E type \in Types : Trigger(type)
  \/ DispatchStep
  \/ DispatchReturn

(***************************************************************************)
(* Specifications.                                                         *)
(***************************************************************************)
Init == MoneyInit /\ EmitterInit

Spec == Init /\ [][MoneyNext]_vars

\* distribute runs to completion once called: the code is synchronous, so
\* the loop takes its next iteration, or its exit, whenever it can
FairSpec ==
  Spec /\ WF_count(LoopIteration) /\ WF_dpc(LoopExit)

\* the emitter is independent of the currency instances
EmitterStart == MoneyStart(NumV(Zero), <<>>) /\ EmitterInit

EmitterSpec == EmitterStart /\ [][EmitterNext]_vars

(***************************************************************************)
(* Claims about the emitter, checked under EmitterSpec.                    *)
(***************************************************************************)
\* the handlers a dispatch invoked, in order
Invocations == [i \in 1..Len(calls) |-> calls[i].handler]

\* the invocations trigger(etype) owes to the registrations in snapshot
Expected == [i \in 1..Len(snapshot) |-> [handler |-> snapshot[i], event |-> [type |-> etype]]]

IsOther(h) == h \notin OnceHandlers

\* C7: when trigger(type) has returned, it has invoked exactly the handlers
\* that were registered for that type when it was called, once per
\* registration and in registration order, each with an event of that type,
\* and no handler of another type.
C7_TriggerInvokesRegistered ==
  (epc = "idle" /\ eop.name = "trigger") => calls = Expected

\* C10: when a dispatch in which a handler removed itself has returned, every
\* other handler registered for the type when the trigger started has been
\* invoked exactly once, in registration order.
C10_SelfRemovalKeepsOthers ==
  (epc = "idle" /\ eop.name = "trigger"
     /\ \E i \in 1..Len(snapshot) : snapshot[i] \in OnceHandlers)
    => SelectSeq(Invocations, IsOther) = SelectSeq(snapshot, IsOther)

\* the registrations of type in ev, none when the type has no property
Registered(ev, type) == IF type \in DOMAIN ev THEN ev[type] ELSE <<>>

\* t is s with exactly one occurrence of h removed, the rest in order
OneRemoved(s, t, h) ==
  \E i \in 1..Len(s) :
    /\ s[i] = h
    /\ t = SubSeq(s, 1, i - 1) \o SubSeq(s, i + 1, Len(s))

OffEffect ==
  /\ eop'.name = "off0" =>
        \A type \in Types : Registered(events', type) = <<>>
  /\ eop'.name = "off1" =>
        /\ Registered(events', eop'.type) = <<>>
        /\ \A type \in Types \ {eop'.type} :
              Registered(events', type) = Registered(events, type)
  /\ eop'.name = "off2" =>
        /\ \A type \in Types \ {eop'.type} :
              Registered(events', type) = Registered(events, type)
        /\ IF \E i \in 1..Len(Registered(events, eop'.type)) :
                  Registered(events, eop'.type)[i] = eop'.handler
           THEN OneRemoved(Registered(events, eop'.type),
                           Registered(events', eop'.type), eop'.handler)
           ELSE Registered(events', eop'.type) = Registered(events, eop'.type)

\* C8: off() leaves no handler of any type; off(type) leaves no handler of
\* that type and every other type's handlers as they were; off(type, handler)
\* removes exactly one registration of that handler for that type, when there
\* is one, and leaves every other registration and their order as they were.
C8_OffRemoves == [][epc = "idle" /\ epc' = "idle" => OffEffect]_vars

\* off(type, handler) has just removed one of two registrations of the same
\* handler, another handler and another type staying registered
C8_Witness ==
  /\ eop.name = "off2"
  /\ eop.handler = "h1"
  /\ eop.type = "x"
  /\ Registered(events, "x") = <<"h2", "h1">>
  /\ Registered(events, "y") # <<>>


(***************************************************************************)
(* Claims about currency, checked under Spec (C9 under FairSpec).          *)
(***************************************************************************)
\* the sum of the intValues of the instances of seq
RECURSIVE SumIntValues(_)
SumIntValues(seq) ==
  IF seq = <<>> THEN Zero
  ELSE NumAdd(seq[1].intValue, SumIntValues(Tail(seq)))

Returned(name) == dpc = "idle" /\ lastOp = name

\* C1: when distribute(N) with N >= 1 has returned on an instance whose
\* intValue is the integer V, the intValues of the returned instances sum to V.
C1_DistributeSum ==
  (Returned("distribute") /\ arg.num.n >= 1 /\ IsInteger(this.intValue))
    => NumEq(SumIntValues(out), this.intValue)

\* this is what currency(a) constructs with this's settings
MadeFrom(a) == this = currency(NumV(a), this._settings).obj

\* the argument of the last call is b, as a number or as currency(b)
ArgIs(b) ==
  \/ arg.t = "number" /\ arg.num = b
  \/ arg.t = "currency" /\ arg.obj = currency(NumV(b), this._settings).obj

\* x differs from y by less than 10^-p
Within(x, y, p) == NumLt(MathAbs(NumSub(x, y)), NumDiv(Int2Num(1), pow(p)))

\* C2: for finite numbers a and b, the value of currency(a).add(b) differs
\* from a + b by less than 10^-precision, b being passed as a number or as
\* currency(b).
C2_AddWithinPrecision ==
  \A a \in Numbers, b \in Numbers :
    (Returned("add") /\ ~err /\ IsFin(a) /\ IsFin(b) /\ MadeFrom(a) /\ ArgIs(b))
      => Within(out[1].value, NumAdd(a, b), this._settings.precision)

\* the operands of the last call are finite
FiniteOperands ==
  /\ IsFin(this.intValue)
  /\ arg.t = "number" => IsFin(arg.num)
  /\ arg.t = "currency" => IsFin(arg.obj.intValue)

\* C3: every instance the caller holds after a call on finite operands
\* (a zero divisor included) has an integer intValue and a value equal to
\* intValue / 10^precision.
C3_IntegerIntValue ==
  FiniteOperands =>
    \A o \in Objs :
      /\ IsInteger(o.intValue)
      /\ NumEq(o.value, NumDiv(o.intValue, pow(o._settings.precision)))

\* the last call constructed an instance from the string this.toString()
\* returned, with this's settings
RoundTripped ==
  /\ Returned("construct")
  /\ text # NoText
  /\ arg.t = "string"
  /\ arg.str = text
  /\ parsed.opts = this._settings

DefaultIncrement(settings) ==
  settings.increment = NumDiv(Int2Num(1), pow(settings.precision))

Arithmetic == {"add", "subtract", "multiply", "divide", "distribute"}

\* C5: a call of add, subtract, multiply, divide or distribute leaves the
\* receiver as it was and the argument as the caller passed it, and what it
\* returns are instances it created.
C5_OperandsUnchanged ==
  [][lastOp' \in Arithmetic
       => (this' = this /\ arg' = passed' /\ ret' \in {"new", "none"}
             /\ (ret' = "none" <=> err'))]_vars

\* subtract has returned an instance other than the receiver, which was
\* also the argument
C5_Witness ==
  /\ Returned("subtract")
  /\ arg = CurV(this)
  /\ ret = "new"
  /\ this.intValue = Int2Num(2)
  /\ out[1].intValue = Zero

Parsable == {"number", "string", "currency"}

\* str is not a number once the parentheses, the other characters and the
\* decimal separator have been replaced
NonNumeric(str, decimal) ==
  NumberOf(ConvertDecimal(StripNonNumeric(ReplaceParens(str), decimal), decimal))
    = NaN

\* C6: the parse of a caller's value raises the error exactly when
\* errorOnInvalid is set and the value is neither a number, a string nor an
\* instance; without errorOnInvalid such a value parses to 0; a string that
\* is not a number after cleanup parses to 0 and raises nothing, whatever
\* errorOnInvalid says; and a call raises the error only when its parse did.
C6_InvalidInput ==
  /\ err => (parsed # NoCall /\ parsed.threw)
  /\ parsed # NoCall =>
       /\ err = parsed.threw
       /\ parsed.threw
            <=> (parsed.opts.errorOnInvalid /\ parsed.value.t \notin Parsable)
       /\ (~parsed.opts.errorOnInvalid /\ parsed.value.t \notin Parsable)
            => parsed.v = Zero
       /\ (parsed.value.t = "string"
             /\ NonNumeric(parsed.value.str, parsed.opts.decimal))
            => (~parsed.threw /\ parsed.v = Zero)

\* add(undefined) has raised the error on an instance with errorOnInvalid
C6_Witness ==
  /\ Returned("add")
  /\ arg = Undefined
  /\ this._settings.errorOnInvalid
  /\ err
  /\ out = <<>>

\* C9: distribute(count), count >= 0, returns, without an error, exactly
\* count instances; none when count is 0.
C9_DistributeTerminates ==
  /\ [](dpc = "loop" => <>(dpc = "idle"))
  /\ [](Returned("distribute") => (~err /\ Len(out) = arg.num.n))

\* distribute(0) has returned the empty array
C9_Witness ==
  /\ Returned("distribute")
  /\ arg = NumV(Zero)
  /\ out = <<>>
  /\ ~err
  /\ this.intValue # Zero

=============================================================================
